---- MODULE Spec2Model ----
(***************************************************************************)
(* Model of the twitter-to-discord bridge: the Twitter stream supervisor   *)
(* (bin/twitterClient.js) and the tweet handler (bin/tweetHandler.js).     *)
(*                                                                         *)
(* Node runs every callback to completion on one thread, so each action    *)
(* below is one callback: a call of connect(), the settlement of a         *)
(* FeedsModel.find() promise, a timer tick, one event of the stream        *)
(* client, one callback of the media promise chain, of deleteTweet or of   *)
(* the retention sweep. Spec is the supervisor with the tweet pipeline;    *)
(* SpecWindow, SpecHandler, SpecNormalise and SpecSweep look at the dedup  *)
(* window, deletions, the normalisation steps and removeOldFiles.          *)
(***************************************************************************)
EXTENDS Naturals, Sequences, FiniteSets

\* ------------------------------------------------------------------ bounds
\* connect() calls whose FeedsModel.find() has not settled yet
MaxPending == 2
\* media batches (promiseSome chains) that have not finished yet
MaxInFlight == 1
\* the stream of the dedup-window specification: tweet ids 1..MaxStreamId, and
\* at most MaxInsertions ids pushed onto recentTweets
MaxStreamId == 22
MaxInsertions == 23
\* deleteTweet: lookups that have not settled yet, and DELETE requests that
\* have not settled yet (also the longest list of recorded messages)
MaxLookups == 1
MaxRequests == 2
\* the normaliser: tokens of a tweet text, and media items of a tweet
MaxTextLen == 2
MaxMedia == 2
\* the sweep: the clock runs up to MaxNow days, files were made on day 0..MaxCTime
MaxNow == 30
MaxCTime == 2

\* ------------------------------------------------- program constants
\* twitterClient.js: 2419200000 ms, the 28 days a file is kept
RetentionDays == 28
\* tweetHandler.js: recentTweets keeps the last 20 ids
WindowCap == 20
\* twitterClient.js: the status that ends the process
Unauthorized == 401

\* ------------------------------------------------------- input universes
\* twitter user ids (id_str); screen_name is in one-to-one relation with them
UserIds == {1, 2}
\* what FeedsModel.find().map(x => x.twitter_id) can yield
FeedLists == {<<>>, <<1>>, <<2>>, <<1, 2>>}
\* tweet ids (id_str) of the supervisor specification
PostIds == {1, 2}
\* in_reply_to_user_id_str: 0 stands for null (not a reply)
NoReply == 0
Tweets == [id_str : PostIds, user : UserIds, in_reply_to : {NoReply} \cup UserIds]
NoTweet == [id_str |-> 0, user |-> 0, in_reply_to |-> NoReply]
\* HTTP status codes of 'connection error http'
Statuses == {401, 503}
NoFile == <<>>
\* the (channel id, message id) pairs a record of a delivered tweet can hold
Messages == {1, 2}
MessageLists == UNION {[1..n -> Messages] : n \in 0..MaxRequests}
\* what TweetsModel.findOne resolves with: null, or a record with its messages
NoRecord == [exists |-> FALSE, messages |-> <<>>]
Records == {NoRecord} \cup [exists : {TRUE}, messages : MessageLists]

VARIABLES
    running,       \* FALSE once process.exit(1) has been called
    ids,           \* utils.ids: the currently streamed twitter ids
    reload,        \* utils.reload
    connection,    \* twitter.connection: [request, follow]
    pending,       \* number of FeedsModel.find() promises of connect() not yet settled
    findFailed,    \* the last settled find() of connect() rejected and connect() was not called since
    recentTweets,  \* tweetHandler.js recentTweets
    inflight,      \* promiseSome(...).then(...).catch(...) chains not finished yet
    insertions,    \* history: every id pushed onto recentTweets, in order
    lookups,       \* TweetsModel.findOne() promises of deleteTweet not yet settled
    requests,      \* DELETE requests to the Discord API not yet settled
    payload,       \* the tweet object given to the normalisation steps
    display,       \* what the normalisation steps made of payload
    files,         \* the ./tweets folder: the ctime of every file in it
    todo,          \* files of a sweep whose fs.stat callback has not run yet
    now,           \* the clock, in days
    last           \* what the most recent callback was and what it did

supervisorVars == <<running, ids, reload, connection, pending, findFailed>>
pipelineVars == <<recentTweets, inflight, insertions>>
deletionVars == <<lookups, requests>>
normalizerVars == <<payload, display>>
sweepVars == <<files, todo, now>>

vars ==
    <<running, ids, reload, connection, pending, findFailed, recentTweets, inflight,
      insertions, lookups, requests, payload, display, files, todo, now, last>>

Range(s) == {s[i] : i \in 1..Len(s)}
Includes(s, x) == x \in Range(s)

NoConnection == [request |-> FALSE, follow |-> <<>>]

\* The record of one callback: its kind, the tweet it was given (if any), the
\* manual flag, the file it wrote, whether it called twitter.stream and how
\* often the finished promise chain called discordClient.send.
Did(kind) ==
    [kind |-> kind, tweet |-> NoTweet, manual |-> FALSE, file |-> NoFile,
     outcome |-> "", stream |-> "no", sends |-> 0, write |-> "none", found |-> NoRecord]

\* nothing of the deletion handler, the normaliser or the sweep is under way
NoDeletions == lookups = 0 /\ requests = <<>>
NoPayload == payload = [present |-> FALSE] /\ display = [done |-> FALSE]
NoSweep == files = <<>> /\ todo = {} /\ now = 0

Init ==
    /\ running = TRUE
    /\ ids = <<>>
    /\ reload = FALSE
    /\ connection = NoConnection
    /\ pending = 0
    /\ findFailed = FALSE
    /\ recentTweets = <<>>
    /\ inflight = <<>>
    /\ insertions = <<>>
    /\ NoDeletions
    /\ NoPayload
    /\ NoSweep
    /\ last = Did("start")

\* ------------------------------------------------------------ supervisor

\* mutant: the handler leaves the id list as it is
OnConnectionAborted_keep(curIds) == curIds

\* twitter.on('connection aborted'): utils.ids = []
OnConnectionAborted(curIds) == <<>>

\* close(): twitter.close() only when twitter.connection.request exists
CloseNeeded == connection.request

\* mutant: the empty-list early return is missing
ShouldStream_always(results) == TRUE

\* twitter.stream('statuses/filter', {follow: ids}) is called iff ids.length # 0
ShouldStream(results) == Len(results) # 0

\* connect() up to the point where FeedsModel.find() has been issued:
\* the flag is cleared, the open connection (if any) is closed, which emits
\* 'connection aborted', and the read is started.
Connect(kind) ==
    /\ running
    /\ pending < MaxPending
    /\ reload' = FALSE
    /\ IF CloseNeeded
          THEN /\ connection' = NoConnection
               /\ ids' = OnConnectionAborted(ids)
          ELSE UNCHANGED <<connection, ids>>
    /\ pending' = pending + 1
    /\ findFailed' = FALSE
    /\ last' = [Did(kind) EXCEPT !.outcome = IF CloseNeeded THEN "aborted" ELSE "read"]
    /\ UNCHANGED <<running, recentTweets, inflight, insertions>>
    /\ UNCHANGED <<deletionVars, normalizerVars, sweepVars>>

\* module.exports.connect called from outside (start-up, command handler)
ExternalConnect == Connect("connect")

\* mutant: the early return on a clear flag is missing
ReloadCheck_always == Connect("reloadCheck")

\* the 5-minute setInterval callback
ReloadCheck ==
    IF reload
       THEN Connect("reloadCheck")
       ELSE /\ running
            /\ last' = Did("reloadCheck")
            /\ UNCHANGED <<running, ids, reload, connection, pending, findFailed,
                           recentTweets, inflight, insertions>>
            /\ UNCHANGED <<deletionVars, normalizerVars, sweepVars>>

\* the reload flag is set by the command handler when feeds are added or removed
ScheduleReload ==
    /\ running
    /\ reload' = TRUE
    /\ last' = Did("scheduleReload")
    /\ UNCHANGED <<running, ids, connection, pending, findFailed, recentTweets, inflight,
                   insertions>>
    /\ UNCHANGED <<deletionVars, normalizerVars, sweepVars>>

\* FeedsModel.find().then(results => ...)
FindResolved(results) ==
    /\ running
    /\ pending > 0
    /\ pending' = pending - 1
    /\ ids' = results
    /\ IF ShouldStream(results)
          THEN /\ connection' = [request |-> TRUE, follow |-> results]
               /\ last' = [Did("findResolved") EXCEPT
                              !.stream = IF connection.request THEN "overlap" ELSE "fresh"]
          ELSE /\ UNCHANGED connection
               /\ last' = Did("findResolved")
    /\ UNCHANGED <<running, reload, findFailed, recentTweets, inflight, insertions>>
    /\ UNCHANGED <<deletionVars, normalizerVars, sweepVars>>

\* FeedsModel.find().catch(err => console.error(...))
FindRejected ==
    /\ running
    /\ pending > 0
    /\ pending' = pending - 1
    /\ findFailed' = TRUE
    /\ last' = Did("findRejected")
    /\ UNCHANGED <<running, ids, reload, connection, recentTweets, inflight, insertions>>
    /\ UNCHANGED <<deletionVars, normalizerVars, sweepVars>>

\* ---------------------------------------------- events of the stream client

\* a handler that only logs
LogOnly(kind) ==
    /\ running
    /\ connection.request
    /\ last' = Did(kind)
    /\ UNCHANGED <<running, ids, reload, connection, pending, findFailed,
                   recentTweets, inflight, insertions>>
    /\ UNCHANGED <<deletionVars, normalizerVars, sweepVars>>

\* mutant: a network error reconnects like an unknown error
ConnectionErrorNetwork_reconnects ==
    /\ connection.request
    /\ Connect("connection error network")

ConnectionSuccess == LogOnly("connection success")
ConnectionErrorNetwork == LogOnly("connection error network")
ConnectionErrorStall == LogOnly("connection error stall")
ConnectionRateLimit == LogOnly("connection rate limit")
DataKeepAlive == LogOnly("data keep-alive")
DataError == LogOnly("data error")

\* twitter.on('connection error http'): process.exit(1) on 401
ConnectionErrorHttp(httpStatusCode) ==
    /\ running
    /\ connection.request
    /\ running' = (httpStatusCode # Unauthorized)
    /\ last' = Did("connection error http")
    /\ UNCHANGED <<ids, reload, connection, pending, findFailed, recentTweets, inflight,
                   insertions>>
    /\ UNCHANGED <<deletionVars, normalizerVars, sweepVars>>

\* twitter.on('connection error unknown'): connect()
ConnectionErrorUnknown ==
    /\ connection.request
    /\ Connect("connection error unknown")

\* ---------------------------------------------------------- tweet handler

\* mutant: the author check is missing
AuthorRegistered_ignored(tweet) == TRUE

\* utils.ids.includes(tweet.user.id_str)
AuthorRegistered(tweet) == Includes(ids, tweet.user)

\* mutant: manual posts are deduplicated too
DedupApplies_always(manual) == TRUE

\* the dedup check runs only when manual is falsy
DedupApplies(manual) == ~manual

\* mutant: the duplicate check never matches
RecentlyProcessed_never(tweet) == FALSE

\* recentTweets.includes(tweet.id_str)
RecentlyProcessed(tweet) == Includes(recentTweets, tweet.id_str)

\* mutant: the window is shifted one entry too early (>= instead of >)
Remember_early(window, id) ==
    LET pushed == Append(window, id)
    IN  IF Len(pushed) >= WindowCap THEN Tail(pushed) ELSE pushed

\* recentTweets.push(id); if (recentTweets.length > 20) recentTweets.shift()
Remember(window, id) ==
    LET pushed == Append(window, id)
    IN  IF Len(pushed) > WindowCap THEN Tail(pushed) ELSE pushed

\* ./tweets/<screen_name>-<id_str>[-man].json
FileName(tweet, manual) == <<tweet.user, tweet.id_str, manual>>

\* mutant: the reply filter is missing
NonSelfReply_never(tweet) == FALSE

\* mutant: every reply is dropped, self-threads too
NonSelfReply_anyReply(tweet) == tweet.in_reply_to # NoReply

\* tweet.in_reply_to_user_id_str && tweet.in_reply_to_user_id_str !== tweet.user.id_str
NonSelfReply(tweet) ==
    /\ tweet.in_reply_to # NoReply
    /\ tweet.in_reply_to # tweet.user

\* a fresh promiseSome(...).then(...).catch(...) chain for the tweet
NewChain(tweet) == [id_str |-> tweet.id_str, phase |-> "media", sends |-> 0]

\* fs.writeFileSync returns, or it throws. Nothing in the handler catches the
\* throw, so it leaves the handler through its caller (the emitter of the
\* stream client or of myEvents) as an uncaught exception, which ends the
\* process.
WriteResults == {"written", "threw"}

\* module.exports = (tweet, manual) => {...} for a tweet that is not a deletion,
\* up to the return of the handler (the promise chain it starts runs later)
TweetHandler(tweet, manual) ==
    LET did == [Did("tweet") EXCEPT !.tweet = tweet, !.manual = manual]
    IN
    /\ running
    /\ IF ~AuthorRegistered(tweet)
          THEN /\ last' = [did EXCEPT !.outcome = "unregistered"]
               /\ UNCHANGED <<running, recentTweets, inflight, insertions>>
          ELSE IF DedupApplies(manual) /\ RecentlyProcessed(tweet)
          THEN /\ last' = [did EXCEPT !.outcome = "duplicate"]
               /\ UNCHANGED <<running, recentTweets, inflight, insertions>>
          ELSE /\ recentTweets' = IF DedupApplies(manual)
                                     THEN Remember(recentTweets, tweet.id_str)
                                     ELSE recentTweets
               /\ insertions' = IF DedupApplies(manual)
                                   THEN Append(insertions, tweet.id_str)
                                   ELSE insertions
               /\ \E write \in WriteResults :
                     IF write # "written"
                        THEN /\ last' = [did EXCEPT !.outcome = "writeThrew", !.write = write]
                             /\ running' = FALSE
                             /\ UNCHANGED inflight
                        ELSE IF NonSelfReply(tweet)
                        THEN /\ last' = [did EXCEPT !.outcome = "nonSelfReply",
                                                    !.write = write,
                                                    !.file = FileName(tweet, manual)]
                             /\ UNCHANGED <<running, inflight>>
                        ELSE /\ Len(inflight) < MaxInFlight
                             /\ last' = [did EXCEPT !.outcome = "dispatched",
                                                    !.write = write,
                                                    !.file = FileName(tweet, manual)]
                             /\ inflight' = Append(inflight, NewChain(tweet))
                             /\ UNCHANGED running
    /\ UNCHANGED <<ids, reload, connection, pending, findFailed>>
    /\ UNCHANGED <<deletionVars, normalizerVars, sweepVars>>

\* twitter.on('data', tweetHandler) with a tweet
Data(tweet) ==
    /\ connection.request
    /\ TweetHandler(tweet, FALSE)

\* myEvents.on('post', data => tweetHandler(data, true))
ManualPost(tweet) == TweetHandler(tweet, TRUE)

\* tweet.delete: deleteTweet(tweet); return  (streamed or manual)
Deletion(manual) ==
    /\ running
    /\ manual \/ connection.request
    /\ lookups < MaxLookups
    /\ lookups' = lookups + 1
    /\ last' = [Did("delete") EXCEPT !.manual = manual, !.outcome = "deleted"]
    /\ UNCHANGED <<supervisorVars, pipelineVars, requests, normalizerVars, sweepVars>>

RemoveAt(s, i) == [j \in 1..(Len(s) - 1) |-> IF j < i THEN s[j] ELSE s[j + 1]]

\* mutant: only the first recorded message is deleted
ToDelete_first(result) ==
    IF ~result.exists \/ result.messages = <<>> THEN <<>> ELSE <<Head(result.messages)>>

\* if (!result || !result.messages) return; result.messages.forEach(...):
\* the messages a DELETE request is sent for
ToDelete(result) == IF ~result.exists THEN <<>> ELSE result.messages

\* TweetsModel.findOne(...).then(result => ...): one fetch per message, all
\* started in this callback
LookupResolved(result) ==
    /\ running
    /\ lookups > 0
    /\ Len(requests) + Len(ToDelete(result)) <= MaxRequests
    /\ lookups' = lookups - 1
    /\ requests' = requests \o ToDelete(result)
    /\ last' = [Did("lookup resolved") EXCEPT !.found = result]
    /\ UNCHANGED <<supervisorVars, pipelineVars, normalizerVars, sweepVars>>

\* TweetsModel.findOne(...).catch(console.error)
LookupRejected ==
    /\ running
    /\ lookups > 0
    /\ lookups' = lookups - 1
    /\ last' = Did("lookup rejected")
    /\ UNCHANGED <<supervisorVars, pipelineVars, requests, normalizerVars, sweepVars>>

\* fetch(uri, {method: 'DELETE'}).then(debug).catch(console.error)
RequestSettles(i, ok) ==
    /\ running
    /\ i \in 1..Len(requests)
    /\ requests' = RemoveAt(requests, i)
    /\ last' = [Did("delete request settled") EXCEPT
                   !.outcome = IF ok THEN "deleted OK" ELSE "failed"]
    /\ UNCHANGED <<supervisorVars, pipelineVars, lookups, normalizerVars, sweepVars>>

\* ------------------------------------------------------- normalisation
\* What the handler does between the self-reply filter and promiseSome. A text
\* is a sequence of tokens: a word, an html entity, white space, or a t.co
\* url; a token remembers the object it was read from and how often it has
\* been wrapped in <...>.

Urls == {"t.co/1", "t.co/2"}
Shapes == {"w", "&amp;", " "} \cup Urls
TextShapes == UNION {[1..n -> Shapes] : n \in 0..MaxTextLen}
MediaTypes == {"photo", "animated_gif"}
MediaShapes == UNION {[1..n -> [type : MediaTypes, url : Urls]] : n \in 0..MaxMedia}

TextOf(shape, src) ==
    [i \in 1..Len(shape) |-> [c |-> shape[i], src |-> src, wraps |-> 0]]
MediaOf(shape, src) ==
    [i \in 1..Len(shape) |-> [type |-> shape[i].type, url |-> shape[i].url, src |-> src]]

\* tweet.extended_tweet, which exists or not
ExtendedTweet(text, media, src, exists) ==
    [present |-> exists, full_text |-> TextOf(text, src), media |-> MediaOf(media, src)]

\* a tweet object: every object in it that carries a text and media carries
\* the same shapes, marked with the object they are in
TweetObject(text, media, truncated, retweet, ownExtended, rtExtended) ==
    [present |-> TRUE,
     user |-> "alice",
     truncated |-> truncated,
     text |-> TextOf(text, "tweet"),
     media |-> MediaOf(media, "tweet"),
     extended_tweet |-> ExtendedTweet(text, media, "tweet.extended_tweet", ownExtended),
     retweeted_status |->
        IF retweet
           THEN [present |-> TRUE,
                 user |-> "bob",
                 text |-> TextOf(text, "retweeted_status"),
                 media |-> MediaOf(media, "retweeted_status"),
                 extended_tweet |->
                    ExtendedTweet(text, media, "retweeted_status.extended_tweet", rtExtended)]
           ELSE [present |-> FALSE]]

\* mutant: the retweeted tweet is ignored
Context_own(tweet) == tweet

\* const context = tweet.retweeted_status || tweet
Context(tweet) == IF tweet.retweeted_status.present THEN tweet.retweeted_status ELSE tweet

\* context.extended_tweet.full_text with context.extended_tweet undefined
ThrowsTypeError(tweet) == tweet.truncated /\ ~Context(tweet).extended_tweet.present

\* if (tweet.truncated) {...} else {...}: text and extendedEntities
SourceText(tweet) ==
    IF tweet.truncated THEN Context(tweet).extended_tweet.full_text ELSE Context(tweet).text
SourceMedia(tweet) ==
    IF tweet.truncated THEN Context(tweet).extended_tweet.media ELSE Context(tweet).media

\* htmlEntities.decode(text)
Decode(text) ==
    [i \in 1..Len(text) |-> IF text[i].c = "&amp;" THEN [text[i] EXCEPT !.c = "&"] ELSE text[i]]

\* String.prototype.trim
Trim(text) ==
    LET solid == {i \in 1..Len(text) : text[i].c # " "}
    IN  IF solid = {}
           THEN <<>>
           ELSE SubSeq(text, CHOOSE i \in solid : \A j \in solid : i <= j,
                             CHOOSE i \in solid : \A j \in solid : j <= i)

\* modifiedText.replace(media.url, `<${media.url}>`): the pattern is a string,
\* so only the first place where the url occurs is replaced, wrapped or not
ReplaceFirst(text, url, src) ==
    LET found == {i \in 1..Len(text) : text[i].c = url /\ text[i].src = src}
    IN  IF found = {}
           THEN text
           ELSE LET first == CHOOSE i \in found : \A j \in found : i <= j
                IN  [text EXCEPT ![first].wraps = text[first].wraps + 1]

\* mutant: the escapedUrls check is missing
AlreadyEscaped_never(escapedUrls, url) == FALSE

\* escapedUrls.includes(media.url)
AlreadyEscaped(escapedUrls, url) == Includes(escapedUrls, url)

\* the two forEach loops over the photos and then the animated gifs
RECURSIVE Escape(_, _, _)
Escape(items, text, escapedUrls) ==
    IF items = <<>>
       THEN text
       ELSE LET media == Head(items)
            IN  IF AlreadyEscaped(escapedUrls, media.url)
                   THEN Escape(Tail(items), text, escapedUrls)
                   ELSE Escape(Tail(items), ReplaceFirst(text, media.url, media.src),
                               Append(escapedUrls, media.url))

IsPhoto(media) == media.type = "photo"
IsGif(media) == media.type = "animated_gif"

\* mediaUrls.push({ image }) for a photo, mediaUrls.push({ video, image }) for a gif
MediaEntry(media) ==
    [entry |-> IF IsPhoto(media) THEN "image" ELSE "video, image", of |-> media]

NoBody == [present |-> FALSE]

\* str and mediaUrls as they are when promiseSome is called
Normalise(tweet) ==
    LET media == SourceMedia(tweet)
        ordered == SelectSeq(media, IsPhoto) \o SelectSeq(media, IsGif)
        modifiedText == Trim(Escape(ordered, Decode(SourceText(tweet)), <<>>))
        nameRT == IF tweet.retweeted_status.present THEN tweet.retweeted_status.user ELSE ""
    IN  [done |-> TRUE,
         threw |-> FALSE,
         header |-> tweet.user,
         body |-> IF modifiedText # <<>>
                     THEN [present |-> TRUE, rt |-> nameRT, text |-> modifiedText]
                     ELSE NoBody,
         mediaUrls |-> [i \in 1..Len(ordered) |-> MediaEntry(ordered[i])]]

TypeError == [done |-> TRUE, threw |-> TRUE]

\* the handler runs its normalisation steps on the tweet
Normalises ==
    /\ payload.present
    /\ ~display.done
    /\ display' = IF ThrowsTypeError(payload) THEN TypeError ELSE Normalise(payload)
    /\ last' = Did("normalised")
    /\ UNCHANGED <<supervisorVars, pipelineVars, deletionVars, payload, sweepVars>>

\* ------------------------------------------------ the media promise chain

\* utils.promiseSome settles: it waits for every entry, and may itself reject
BatchSettles(i, fulfilled) ==
    /\ running
    /\ i \in 1..Len(inflight)
    /\ inflight[i].phase = "media"
    /\ inflight' = [inflight EXCEPT ![i].phase = IF fulfilled THEN "fulfilled" ELSE "rejected"]
    /\ last' = Did("batch settled")
    /\ UNCHANGED <<running, ids, reload, connection, pending, findFailed, recentTweets,
                   insertions>>
    /\ UNCHANGED <<deletionVars, normalizerVars, sweepVars>>

\* the chain is over: it leaves the set of running chains
Finish(i, sends) ==
    /\ inflight' = RemoveAt(inflight, i)
    /\ last' = [Did("chain finished") EXCEPT !.sends = sends,
                                            !.tweet = [NoTweet EXCEPT !.id_str = inflight[i].id_str]]

\* what a throw of discordClient.send inside .then() leads to: the promise
\* returned by .then() rejects, so the .catch() callback of the chain runs
AfterThrowInThen(chain) == [chain EXCEPT !.phase = "rejected", !.sends = chain.sends + 1]

\* .then(() => { discordClient.send(tweet, str); })
ThenCallback(i, sendThrows) ==
    /\ running
    /\ i \in 1..Len(inflight)
    /\ inflight[i].phase = "fulfilled"
    /\ IF sendThrows
          THEN /\ inflight' = [inflight EXCEPT ![i] = AfterThrowInThen(inflight[i])]
               /\ last' = Did("send threw")
          ELSE Finish(i, inflight[i].sends + 1)
    /\ UNCHANGED <<running, ids, reload, connection, pending, findFailed, recentTweets,
                   insertions>>
    /\ UNCHANGED <<deletionVars, normalizerVars, sweepVars>>

\* .catch(err => { console.error(err); discordClient.send(tweet, str); })
CatchCallback(i) ==
    /\ running
    /\ i \in 1..Len(inflight)
    /\ inflight[i].phase = "rejected"
    /\ Finish(i, inflight[i].sends + 1)
    /\ UNCHANGED <<running, ids, reload, connection, pending, findFailed, recentTweets,
                   insertions>>
    /\ UNCHANGED <<deletionVars, normalizerVars, sweepVars>>

\* --------------------------------------------------------- specification

Next ==
    \/ ExternalConnect
    \/ ReloadCheck
    \/ ScheduleReload
    \/ \E results \in FeedLists : FindResolved(results)
    \/ FindRejected
    \/ ConnectionSuccess
    \/ ConnectionErrorNetwork
    \/ ConnectionErrorStall
    \/ \E status \in Statuses : ConnectionErrorHttp(status)
    \/ ConnectionRateLimit
    \/ ConnectionErrorUnknown
    \/ DataKeepAlive
    \/ DataError
    \/ \E tweet \in Tweets : Data(tweet)
    \/ \E tweet \in Tweets : ManualPost(tweet)
    \/ \E i \in 1..MaxInFlight, fulfilled \in BOOLEAN : BatchSettles(i, fulfilled)
    \/ \E i \in 1..MaxInFlight, sendThrows \in BOOLEAN : ThenCallback(i, sendThrows)
    \/ \E i \in 1..MaxInFlight : CatchCallback(i)

Spec == Init /\ [][Next]_vars

\* ------------------------------------------- the dedup-window specification
\* A session that streams user 1 is open and tweets arrive over it: tweet ids
\* grow with time, so a streamed tweet is the next new id or a repetition of
\* an id seen before.

InitWindow ==
    /\ running = TRUE
    /\ ids = <<1>>
    /\ reload = FALSE
    /\ connection = [request |-> TRUE, follow |-> <<1>>]
    /\ pending = 0
    /\ findFailed = FALSE
    /\ recentTweets = <<>>
    /\ inflight = <<>>
    /\ insertions = <<>>
    /\ NoDeletions
    /\ NoPayload
    /\ NoSweep
    /\ last = [Did("findResolved") EXCEPT !.stream = "fresh"]

Highest(s) == IF s = <<>> THEN 0 ELSE CHOOSE m \in Range(s) : \A x \in Range(s) : x <= m

StreamTweets ==
    LET top == Highest(insertions) + 1
    IN  [id_str : 1..(IF top < MaxStreamId THEN top ELSE MaxStreamId),
         user : UserIds,
         in_reply_to : {NoReply}]

StreamedInOrder(tweet) ==
    /\ Len(insertions) < MaxInsertions
    /\ Data(tweet)

NextWindow ==
    \/ \E tweet \in StreamTweets : StreamedInOrder(tweet)
    \/ \E i \in 1..MaxInFlight, fulfilled \in BOOLEAN : BatchSettles(i, fulfilled)
    \/ \E i \in 1..MaxInFlight, sendThrows \in BOOLEAN : ThenCallback(i, sendThrows)
    \/ \E i \in 1..MaxInFlight : CatchCallback(i)

SpecWindow == InitWindow /\ [][NextWindow]_vars

\* ------------------------------------------- the tweet-handler specification
\* A session that streams user 1 is open; tweets arrive over it, deletion
\* notices over it and over myEvents, and the promises of the handler settle.

NextHandler ==
    \/ \E tweet \in Tweets : Data(tweet)
    \/ \E manual \in BOOLEAN : Deletion(manual)
    \/ \E result \in Records : LookupResolved(result)
    \/ LookupRejected
    \/ \E i \in 1..MaxRequests, ok \in BOOLEAN : RequestSettles(i, ok)
    \/ \E i \in 1..MaxInFlight, fulfilled \in BOOLEAN : BatchSettles(i, fulfilled)
    \/ \E i \in 1..MaxInFlight, sendThrows \in BOOLEAN : ThenCallback(i, sendThrows)
    \/ \E i \in 1..MaxInFlight : CatchCallback(i)

SpecHandler == InitWindow /\ [][NextHandler]_vars

\* ------------------------------------------------------ retention sweep

\* the names of the files in ./tweets
FileNames == {"a.json", "b.json", "c.json"}

\* mutant: a file is removed on its 28th day already
Expired_inclusive(time, ctime) == time >= ctime + RetentionDays

\* now > new Date(stat.ctime).getTime() + 2419200000
Expired(time, ctime) == time > ctime + RetentionDays

\* time passes
Tick ==
    /\ running
    /\ now < MaxNow
    /\ now' = now + 1
    /\ last' = Did("tick")
    /\ UNCHANGED <<supervisorVars, pipelineVars, deletionVars, normalizerVars, files, todo>>

\* removeOldFiles() up to the fs.readdir callback, which starts one fs.stat
\* per file or, on an error, none; the sweep before it is over
RemoveOldFiles(readdirOk) ==
    /\ running
    /\ todo = {}
    /\ todo' = IF readdirOk THEN DOMAIN files ELSE {}
    /\ last' = [Did("sweep") EXCEPT !.outcome = IF readdirOk THEN "listed" ELSE "readdir failed"]
    /\ UNCHANGED <<supervisorVars, pipelineVars, deletionVars, normalizerVars, files, now>>

\* the fs.stat callback of one file, and the fs.unlink it may call
StatCallback(file, statOk, unlinkOk) ==
    /\ running
    /\ file \in todo
    /\ todo' = todo \ {file}
    /\ IF ~statOk
          THEN /\ last' = [Did("stat") EXCEPT !.file = <<file>>, !.outcome = "stat failed"]
               /\ UNCHANGED files
          ELSE IF ~Expired(now, files[file])
          THEN /\ last' = [Did("stat") EXCEPT !.file = <<file>>, !.outcome = "kept"]
               /\ UNCHANGED files
          ELSE IF ~unlinkOk
          THEN /\ last' = [Did("stat") EXCEPT !.file = <<file>>, !.outcome = "unlink failed"]
               /\ UNCHANGED files
          ELSE /\ last' = [Did("stat") EXCEPT !.file = <<file>>, !.outcome = "unlinked"]
               /\ files' = [f \in DOMAIN files \ {file} |-> files[f]]
    /\ UNCHANGED <<supervisorVars, pipelineVars, deletionVars, normalizerVars, now>>

\* The sweep specification: ./tweets holds files made on different days, the
\* oldest of them 29 days ago, and the sweep timers fire.
InitSweep ==
    /\ running = TRUE
    /\ ids = <<>>
    /\ reload = FALSE
    /\ connection = NoConnection
    /\ pending = 0
    /\ findFailed = FALSE
    /\ recentTweets = <<>>
    /\ inflight = <<>>
    /\ insertions = <<>>
    /\ NoDeletions
    /\ NoPayload
    /\ files \in [FileNames -> 0..MaxCTime]
    /\ todo = {}
    /\ now = RetentionDays + 1
    /\ last = Did("start")

NextSweep ==
    \/ Tick
    \/ \E readdirOk \in BOOLEAN : RemoveOldFiles(readdirOk)
    \/ \E file \in FileNames, statOk \in BOOLEAN, unlinkOk \in BOOLEAN :
          StatCallback(file, statOk, unlinkOk)

SpecSweep == InitSweep /\ [][NextSweep]_vars

\* ---------------------------------------------- the normaliser specification
\* Any tweet object that got past the filters is normalised.

InitNormalise ==
    /\ running = TRUE
    /\ ids = <<1>>
    /\ reload = FALSE
    /\ connection = [request |-> TRUE, follow |-> <<1>>]
    /\ pending = 0
    /\ findFailed = FALSE
    /\ recentTweets = <<>>
    /\ inflight = <<>>
    /\ insertions = <<>>
    /\ NoDeletions
    /\ \E text \in TextShapes, media \in MediaShapes,
          truncated \in BOOLEAN, retweet \in BOOLEAN,
          ownExtended \in BOOLEAN, rtExtended \in BOOLEAN :
             payload = TweetObject(text, media, truncated, retweet, ownExtended, rtExtended)
    /\ display = [done |-> FALSE]
    /\ NoSweep
    /\ last = Did("tweet")

NextNormalise == Normalises

SpecNormalise == InitNormalise /\ [][NextNormalise]_vars

\* ------------------------------------------------------------------ claims

HandledTweet(l) == l.kind = "tweet"
ConnectCalled(l) == l.outcome \in {"aborted", "read"}

\* C1: twitter.stream is never invoked while a session opened by an earlier
\* connect() is still open (at most one streaming session at a time).
C1_NoOverlappingStream == last.stream # "overlap"

\* C2: a tweet (streamed or manual) whose author id is not in utils.ids when it
\* is handled starts no delivery, writes no archive file and is not pushed
\* onto recentTweets.
C2_AuthorGate ==
    [][(HandledTweet(last') /\ ~Includes(ids, last'.tweet.user))
          => /\ inflight' = inflight
             /\ recentTweets' = recentTweets
             /\ last'.file = NoFile]_vars

C2_Witness ==
    /\ HandledTweet(last)
    /\ ~last.manual
    /\ connection.request
    /\ ~Includes(ids, last.tweet.user)
    /\ last.outcome = "unregistered"

\* C3 as stated: a manual post whose author id is not in utils.ids is still
\* delivered (it bypasses the author filter).
C3_ManualBypassesAuthorFilter ==
    (/\ HandledTweet(last)
     /\ last.manual
     /\ ~Includes(ids, last.tweet.user)
     /\ ~NonSelfReply(last.tweet))
        => last.outcome = "dispatched"

\* C3 as amended: a manual post bypasses the dedup check only. With an author
\* id that is not in utils.ids it is dropped before archival and delivery; with
\* a registered author it reaches the archive write whether or not its id is
\* in recentTweets, and once the file is written its delivery chain is started
\* unless it is a reply to another user.
C3_ManualBypassesDedupOnly ==
    [][(HandledTweet(last') /\ last'.manual)
          => IF ~Includes(ids, last'.tweet.user)
                THEN /\ inflight' = inflight
                     /\ last'.file = NoFile
                     /\ last'.write = "none"
                ELSE /\ last'.write # "none"
                     /\ (/\ last'.write = "written"
                         /\ last'.tweet.in_reply_to \in {NoReply, last'.tweet.user})
                            => /\ inflight' = Append(inflight, NewChain(last'.tweet))
                               /\ last'.file = FileName(last'.tweet, TRUE)]_vars

C3_Witness ==
    /\ HandledTweet(last)
    /\ last.manual
    /\ ids # <<>>
    /\ ~Includes(ids, last.tweet.user)
    /\ last.file = NoFile
    /\ inflight = <<>>

\* C4: a finished delivery chain has invoked discordClient.send exactly once,
\* whatever the media batch and the send itself did.
C4_SentExactlyOnce == (last.kind = "chain finished") => (last.sends = 1)

\* C5 as stated: a streamed tweet whose id is in recentTweets is not delivered
\* and leaves recentTweets unchanged; a manual post of a registered author is
\* delivered even when its id is in recentTweets; a manual post never modifies
\* recentTweets.
C5_DedupStreamedOnly ==
    [][HandledTweet(last')
          => /\ (/\ ~last'.manual
                 /\ Includes(ids, last'.tweet.user)
                 /\ Includes(recentTweets, last'.tweet.id_str))
                    => /\ inflight' = inflight
                       /\ recentTweets' = recentTweets
             /\ (/\ last'.manual
                 /\ Includes(ids, last'.tweet.user)
                 /\ Includes(recentTweets, last'.tweet.id_str))
                    => inflight' = Append(inflight, NewChain(last'.tweet))
             /\ last'.manual => recentTweets' = recentTweets]_vars

\* C5 as amended: the same, except that the manual post of a registered author
\* whose id is in recentTweets is not stopped by the dedup check: it reaches
\* the archive write, and once the file is written its delivery chain is
\* started unless it is a reply to another user (the self-reply filter still
\* applies to it).
C5_DedupStreamedOnlyUnlessReply ==
    [][HandledTweet(last')
          => /\ (/\ ~last'.manual
                 /\ Includes(ids, last'.tweet.user)
                 /\ Includes(recentTweets, last'.tweet.id_str))
                    => /\ inflight' = inflight
                       /\ recentTweets' = recentTweets
             /\ (/\ last'.manual
                 /\ Includes(ids, last'.tweet.user)
                 /\ Includes(recentTweets, last'.tweet.id_str))
                    => /\ last'.write # "none"
                       /\ (/\ last'.write = "written"
                           /\ last'.tweet.in_reply_to \in {NoReply, last'.tweet.user})
                              => inflight' = Append(inflight, NewChain(last'.tweet))
                       /\ (last'.tweet.in_reply_to \notin {NoReply, last'.tweet.user})
                              => inflight' = inflight
             /\ last'.manual => recentTweets' = recentTweets]_vars

C5_Witness ==
    /\ HandledTweet(last)
    /\ last.manual
    /\ Includes(ids, last.tweet.user)
    /\ Includes(recentTweets, last.tweet.id_str)
    /\ inflight # <<>>
    /\ inflight[Len(inflight)] = NewChain(last.tweet)

\* C6: recentTweets never holds more than 20 ids, holds no id twice, and is
\* the last 20 (or fewer) of the ids pushed onto it, in the order pushed.
LastN(s, n) == IF Len(s) <= n THEN s ELSE SubSeq(s, Len(s) - n + 1, Len(s))

C6_Window ==
    /\ Len(recentTweets) <= WindowCap
    /\ \A i, j \in 1..Len(recentTweets) : i # j => recentTweets[i] # recentTweets[j]
    /\ recentTweets = LastN(insertions, WindowCap)

\* more than 20 pushes, the oldest id evicted and pushed again later
C6_Witness ==
    /\ Len(insertions) > WindowCap + 1
    /\ Len(recentTweets) = WindowCap
    /\ insertions[1] = recentTweets[Len(recentTweets)]

\* C7: after a failed read of connect(), the next 5-minute check calls
\* connect() again (no failed read is left unretried by a check).
C7_RetriedAtNextCheck == (last.kind = "reloadCheck") => ~findFailed

\* C8 as stated: after 'connection aborted' has been handled both utils.ids
\* and recentTweets are empty.
C8_AbortClearsIdsAndWindow ==
    (last.outcome = "aborted") => (ids = <<>> /\ recentTweets = <<>>)

\* C8 as amended: after 'connection aborted' has been handled utils.ids is
\* empty, and recentTweets is what it was before: it survives the reconnect.
C8_AbortClearsIdsOnly ==
    [][(last'.outcome = "aborted") => (ids' = <<>> /\ recentTweets' = recentTweets)]_vars

C8_Witness ==
    /\ last.outcome = "aborted"
    /\ ids = <<>>
    /\ recentTweets # <<>>

\* C9: whenever a session is open, utils.ids is the id list read by the
\* connect() that opened it, which is the session's follow filter.
C9_IdsMatchSession == connection.request => (ids = connection.follow)

C11_OnlyUnauthorizedExits == ~running => (last.kind = "connection error http")

\* C12: when the archive write of a tweet that has passed the author and the
\* dedup filter fails, the handler goes on as if the file had been written:
\* unless the tweet is a reply to another user, its delivery chain is started.
C12_ArchiveFailureNotFatal ==
    (/\ HandledTweet(last)
     /\ last.write \in WriteResults \ {"written"}
     /\ ~NonSelfReply(last.tweet))
        => /\ inflight # <<>>
           /\ inflight[Len(inflight)] = NewChain(last.tweet)

\* C13: the handler of 'connection error unknown' calls connect(): the session
\* the event came from is closed and a read of the feeds is started. The
\* handlers of a network error, a stall, an HTTP error other than 401, a rate
\* limit and a malformed message call neither connect() nor close(): utils.ids,
\* recentTweets, utils.reload, the session and the pending reads stay as they are.
LoggedOnly ==
    {"connection error network", "connection error stall", "connection rate limit",
     "data error"}

C13_OnlyUnknownReconnects ==
    [][/\ (last'.kind = "connection error unknown")
            => /\ last'.outcome = "aborted"
               /\ connection.request /\ ~connection'.request
               /\ pending' = pending + 1
       /\ (last'.kind \in LoggedOnly \/ (last'.kind = "connection error http" /\ running'))
            => /\ ~ConnectCalled(last')
               /\ UNCHANGED <<ids, recentTweets, reload, connection, pending>>]_vars

C13_Witness ==
    /\ last.kind = "connection error unknown"
    /\ last.outcome = "aborted"
    /\ ~connection.request
    /\ pending > 0
    /\ recentTweets # <<>>

\* C14: a 5-minute check that finds utils.reload set calls connect(), which
\* clears the flag and starts a read; a check that finds it clear does nothing.
\* No other step clears the flag: once set, also while a read is pending, it
\* stays set until a connect() is called, whose read therefore starts after
\* the flag was set.
C14_ReloadHonoured ==
    [][/\ (last'.kind = "reloadCheck")
            => IF reload
                  THEN /\ ConnectCalled(last')
                       /\ ~reload'
                       /\ pending' = pending + 1
                  ELSE /\ ~ConnectCalled(last')
                       /\ UNCHANGED <<supervisorVars, pipelineVars>>
       /\ (reload /\ ~reload') => (ConnectCalled(last') /\ pending' = pending + 1)
       /\ ConnectCalled(last') => ~reload']_vars

\* the flag was set while a read was pending, and the check called connect()
C14_Witness ==
    /\ last.kind = "reloadCheck"
    /\ ConnectCalled(last)
    /\ pending = 2
    /\ ~reload

\* C15: a tweet that is a reply to a user other than its own author never gets
\* a delivery chain; a reply to its own author and a tweet that is no reply
\* pass the filter: having reached it (the archive file is written), they get
\* their delivery chain.
C15_ReplyFilter ==
    [][HandledTweet(last')
          => LET tweet == last'.tweet
             IN  /\ (tweet.in_reply_to # NoReply /\ tweet.in_reply_to # tweet.user)
                        => inflight' = inflight
                 /\ (tweet.in_reply_to \in {NoReply, tweet.user} /\ last'.write = "written")
                        => inflight' = Append(inflight, NewChain(tweet))]_vars

\* a self-thread reply was dispatched
C15_Witness ==
    /\ HandledTweet(last)
    /\ last.tweet.in_reply_to = last.tweet.user
    /\ last.write = "written"
    /\ inflight # <<>>
    /\ inflight[Len(inflight)] = NewChain(last.tweet)

\* C16: a deletion notice only starts a lookup: it is not author-filtered,
\* archived, pushed onto recentTweets or delivered. When the lookup resolves
\* with a record, one DELETE request per recorded message is sent, all in the
\* same callback; with no record, or a failed lookup, none is sent; and a
\* request that settles, failed or not, takes no other request with it.
C16_Deletion ==
    [][/\ (last'.kind = "delete")
            => /\ lookups' = lookups + 1
               /\ last'.write = "none"
               /\ UNCHANGED <<ids, recentTweets, insertions, inflight, requests>>
       /\ (last'.kind = "lookup resolved")
            => requests' = requests \o (IF last'.found.exists
                                           THEN last'.found.messages
                                           ELSE <<>>)
       /\ (last'.kind = "lookup rejected") => requests' = requests
       /\ (last'.kind = "delete request settled")
            => \E i \in 1..Len(requests) : requests' = RemoveAt(requests, i)]_vars

\* two requests were sent for a record of two messages, one has failed and
\* the other is still under way
C16_Witness ==
    /\ last.kind = "delete request settled"
    /\ last.outcome = "failed"
    /\ Len(requests) = 1

\* the normalisation ran to its end: str and mediaUrls exist
Normalised == display.done /\ ~display.threw
DisplayText == IF display.body.present THEN display.body.text ELSE <<>>
\* the objects of the retweeted tweet, and those of the tweet itself
RetweetSources == {"retweeted_status", "retweeted_status.extended_tweet"}
OwnSources == {"tweet", "tweet.extended_tweet"}
TakenFrom(sources) ==
    /\ \A i \in 1..Len(DisplayText) : DisplayText[i].src \in sources
    /\ \A i \in 1..Len(display.mediaUrls) : display.mediaUrls[i].of.src \in sources

\* C17 as stated: the display string of a retweet carries "RT @<name>: " with
\* the screen name of the retweeted tweet's author, and its text and media
\* entries are those of the retweeted tweet; the display string of any other
\* tweet carries no RT prefix, and its text and media are the tweet's own.
C17_RetweetPrefixed ==
    Normalised
       => IF payload.retweeted_status.present
             THEN /\ display.body.present
                  /\ display.body.rt = payload.retweeted_status.user
                  /\ TakenFrom(RetweetSources)
             ELSE /\ display.body.present => display.body.rt = ""
                  /\ TakenFrom(OwnSources)

\* C17 as amended: the same, the RT prefix being there when the decoded and
\* trimmed text is not empty; with an empty text the display string is the
\* header and the link alone, for a retweet too.
C17_RetweetPrefixedText ==
    Normalised
       => /\ display.body.present <=> (\E i \in 1..Len(payload.text) : payload.text[i].c # " ")
          /\ IF payload.retweeted_status.present
                THEN /\ display.body.present
                          => display.body.rt = payload.retweeted_status.user
                     /\ TakenFrom(RetweetSources)
                ELSE /\ display.body.present => display.body.rt = ""
                     /\ TakenFrom(OwnSources)

\* a retweet with a text and a media item was normalised
C17_Witness ==
    /\ Normalised
    /\ payload.retweeted_status.present
    /\ display.body.present
    /\ display.body.rt = "bob"
    /\ display.mediaUrls # <<>>
    /\ TakenFrom(RetweetSources)

\* C19: in the display text no url is wrapped in <...> more than once: no
\* token is wrapped twice, and of the places where a media url occurs at most
\* one is wrapped, however many media items carry that url.
C19_EscapedOnce ==
    Normalised
       => /\ \A i \in 1..Len(DisplayText) : DisplayText[i].wraps <= 1
          /\ \A url \in Urls :
                Cardinality({i \in 1..Len(DisplayText) :
                                DisplayText[i].c = url /\ DisplayText[i].wraps > 0}) <= 1

\* a photo and a gif share a url that occurs twice in the text: the first
\* place is wrapped, the second is not
C19_Witness ==
    /\ Normalised
    /\ Len(display.mediaUrls) = 2
    /\ display.mediaUrls[1].of.url = display.mediaUrls[2].of.url
    /\ display.mediaUrls[1].of.type # display.mediaUrls[2].of.type
    /\ Len(DisplayText) = 2
    /\ DisplayText[1].c = display.mediaUrls[1].of.url /\ DisplayText[1].wraps = 1
    /\ DisplayText[2].c = display.mediaUrls[1].of.url /\ DisplayText[2].wraps = 0

\* C18: a sweep examines every file of ./tweets; a file that is examined
\* without a failure is removed if it was made more than 28 days ago and kept
\* otherwise; a file whose stat or unlink fails stays; and whatever happens to
\* one file, the other files of the sweep are still examined and untouched.
C18_Sweep ==
    [][/\ (last'.kind = "sweep" /\ last'.outcome = "listed") => todo' = DOMAIN files
       /\ (last'.kind = "stat")
            => LET file == last'.file[1]
                   failed == last'.outcome \in {"stat failed", "unlink failed"}
               IN  /\ todo' = todo \ {file}
                   /\ \A f \in DOMAIN files \ {file} :
                         f \in DOMAIN files' /\ files'[f] = files[f]
                   /\ failed => file \in DOMAIN files'
                   /\ ~failed => (file \notin DOMAIN files'
                                     <=> now > files[file] + RetentionDays)]_vars

\* a sweep is over in which one expired file could not be removed and
\* another one, examined after it, was removed
C18_Witness ==
    /\ last.kind = "stat"
    /\ last.outcome = "unlinked"
    /\ todo = {}
    /\ now = RetentionDays + 1
    /\ \E f \in DOMAIN files : now > files[f] + RetentionDays
    /\ \E f \in DOMAIN files : now = files[f] + RetentionDays

\* C20: the handler checks for a deletion first, then the author, then the
\* dedup window, then archives, then filters replies, and a step that rejects
\* ends the handler. A deletion notice touches nothing of the pipeline; a
\* tweet rejected by the author filter or the dedup filter is neither pushed
\* onto recentTweets nor archived; a streamed tweet past both is pushed (the
\* oldest id leaving a full window) before the archive write is made, and a
\* reply to another user is archived but gets no delivery chain.
C20_PipelineOrder ==
    [][/\ (last'.kind = "delete")
            => /\ last'.write = "none"
               /\ UNCHANGED <<recentTweets, inflight>>
       /\ HandledTweet(last')
            => LET tweet == last'.tweet
               IN  IF \/ ~Includes(ids, tweet.user)
                      \/ (~last'.manual /\ Includes(recentTweets, tweet.id_str))
                      THEN /\ last'.write = "none"
                           /\ last'.file = NoFile
                           /\ UNCHANGED <<recentTweets, inflight>>
                      ELSE /\ last'.write # "none"
                           /\ ~last'.manual
                                 => recentTweets' =
                                       LastN(Append(recentTweets, tweet.id_str), WindowCap)
                           /\ (tweet.in_reply_to # NoReply /\ tweet.in_reply_to # tweet.user)
                                 => /\ inflight' = inflight
                                    /\ (last'.write = "written")
                                          => last'.file = FileName(tweet, last'.manual)]_vars

\* a streamed reply of a tracked author to another user was archived and
\* pushed onto recentTweets, and no delivery chain was started for it
C20_Witness ==
    /\ HandledTweet(last)
    /\ ~last.manual
    /\ Includes(ids, last.tweet.user)
    /\ last.tweet.in_reply_to \notin {NoReply, last.tweet.user}
    /\ last.file = FileName(last.tweet, FALSE)
    /\ recentTweets # <<>>
    /\ recentTweets[Len(recentTweets)] = last.tweet.id_str
    /\ inflight = <<>>

====
